---- MODULE Spec2Model ----
(***************************************************************************)
(* Model of package predicates (src/predicates/float64pred.go): the value  *)
(* type Float64Pred {n, e} and its constructor, projection and six         *)
(* arithmetic methods.                                                     *)
(*                                                                         *)
(* Numbers.  A float64 value is modelled by an exact rational <<num, den>> *)
(* in lowest terms (den > 0).  The model covers finite values on which the *)
(* value arithmetic itself is exact; NaN, infinities, overflow and         *)
(* underflow are outside it.                                               *)
(*                                                                         *)
(* Error magnitudes.  Every error bound the code computes is a sum of      *)
(* products of values with the two constants                               *)
(*     U = macheps / (1 - macheps)      (macheps = 2^-52)                   *)
(*     S = math.SmallestNonzeroFloat64  (2^-1074)                           *)
(* so an error magnitude is kept exactly, as a polynomial in U and S with  *)
(* rational coefficients: a function from monomials <<i, j>> (U^i * S^j)   *)
(* to non-zero rationals.  Because 0 < S < U^20 and U < 2^-51, polynomials *)
(* of degree < 20 with coefficients far below 2^51 are ordered as reals    *)
(* exactly by the sign of the coefficient of their largest monomial, where *)
(* U^i S^j is larger than U^k S^l iff j < l, or j = l and i < k.           *)
(* The rounding of the float64 additions that accumulate e is not          *)
(* modelled: e is the real number the code's formula denotes.              *)
(***************************************************************************)
EXTENDS Integers, Sequences, FiniteSets, TLC

\* Number of operations (constructor calls after Init and arithmetic
\* methods) a behaviour performs.
MaxOps == 2

\* Largest magnitude, and largest denominator, of a number a behaviour
\* computes: the range in which the value arithmetic is exact.
MaxMag == 8

--------------------------------------------------------------------------
\* Exact rationals <<num, den>>, den > 0, gcd(num, den) = 1.

RECURSIVE GCD(_, _)
GCD(x, y) == IF y = 0 THEN x ELSE GCD(y, x % y)

AbsInt(x) == IF x < 0 THEN -x ELSE x

Norm(p, q) == LET g == GCD(AbsInt(p), q) IN <<p \div g, q \div g>>

Zero == <<0, 1>>
One == <<1, 1>>

\* Sums are formed over the least common denominator and products are
\* cancelled crosswise first, to keep the intermediate integers small.
RAdd(x, y) ==
    LET l == (x[2] \div GCD(x[2], y[2])) * y[2]
    IN  Norm(x[1] * (l \div x[2]) + y[1] * (l \div y[2]), l)
RNeg(x) == <<-x[1], x[2]>>
RSub(x, y) == RAdd(x, RNeg(y))
RMul(x, y) ==
    LET g == GCD(AbsInt(x[1]), y[2])
        h == GCD(AbsInt(y[1]), x[2])
    IN  Norm((x[1] \div g) * (y[1] \div h), (x[2] \div h) * (y[2] \div g))
RLe(x, y) == x[1] * y[2] <= y[1] * x[2]

\* math.Abs
Abs(x) == <<AbsInt(x[1]), x[2]>>

\* The float64 arguments a caller passes: a negative number, zero, a
\* magnitude below 1 and a magnitude above 1.
Floats == {<<-2, 1>>, <<0, 1>>, <<1, 2>>, <<2, 1>>}

--------------------------------------------------------------------------
\* Error magnitudes: polynomials in U and S (see the header).

PZero == [m \in {} |-> Zero]

Mono(i, j, c) == IF c = Zero THEN PZero ELSE [m \in {<<i, j>>} |-> c]

Coef(p, m) == IF m \in DOMAIN p THEN p[m] ELSE Zero

\* Drops the zero coefficients.
Trim(p) == [m \in {k \in DOMAIN p : p[k] # Zero} |-> p[m]]

PAdd(p, q) ==
    Trim([m \in DOMAIN p \cup DOMAIN q |-> RAdd(Coef(p, m), Coef(q, m))])

PScale(c, p) == Trim([m \in DOMAIN p |-> RMul(c, p[m])])

PNeg(p) == PScale(<<-1, 1>>, p)
PSub(p, q) == PAdd(p, PNeg(q))

\* Sum of p[k] * q[l] over the pairs <<k, l>> of T.
RECURSIVE TermSum(_, _, _)
TermSum(T, p, q) ==
    IF T = {} THEN Zero
    ELSE LET t == CHOOSE x \in T : TRUE
         IN  RAdd(RMul(p[t[1]], q[t[2]]), TermSum(T \ {t}, p, q))

PMul(p, q) ==
    LET pairs == (DOMAIN p) \X (DOMAIN q)
        MonoOf(pr) == <<pr[1][1] + pr[2][1], pr[1][2] + pr[2][2]>>
        dom == {MonoOf(pr) : pr \in pairs}
    IN  Trim([m \in dom |->
                TermSum({pr \in pairs : MonoOf(pr) = m}, p, q)])

\* U^i S^j is at least as large as U^k S^l
MonoGe(m, k) == m[2] < k[2] \/ (m[2] = k[2] /\ m[1] <= k[1])

PSign(p) ==
    IF DOMAIN p = {} THEN 0
    ELSE LET lead == CHOOSE m \in DOMAIN p : \A k \in DOMAIN p : MonoGe(m, k)
         IN  IF p[lead][1] < 0 THEN -1 ELSE 1

PLe(p, q) == PSign(PSub(q, p)) >= 0
PAbs(p) == IF PSign(p) < 0 THEN PNeg(p) ELSE p

--------------------------------------------------------------------------
\* The package's constants.

\* macheps enters every formula of the code as macheps * |x| / (1 - macheps);
\* RelErr(x) is that expression: |x| * U.
RelErr(x) == Mono(1, 0, Abs(x))

\* math.SmallestNonzeroFloat64: S.
SmallestNonzeroFloat64 == Mono(0, 1, One)

--------------------------------------------------------------------------
\* type Float64Pred struct { n, e float64 }

Float64Pred(n, e) == [n |-> n, e |-> e]

NewFloat64Pred(n) == Float64Pred(n, PZero)

GetValues(p) == <<p.n, p.e>>

\* A method call is modelled by what the caller holds when it returns:
\* self, the caller's receiver (the methods have value receivers, so the
\* assignments to p.n and p.e inside the method change a copy), other,
\* the caller's Float64Pred argument, and ret, the returned value.
Call(self, other, ret) == [self |-> self, other |-> other, ret |-> ret]

\* Mutant of AddFloat64: the relative increment without math.Abs.
AddFloat64_NoAbs(p, f) ==
    LET n1 == RAdd(p.n, f)
        e1 == IF n1 = Zero
              THEN PAdd(p.e, SmallestNonzeroFloat64)
              ELSE PAdd(p.e, Mono(1, 0, n1))
    IN  Call(p, p, Float64Pred(n1, e1))

AddFloat64(p, f) ==
    LET n1 == RAdd(p.n, f)
        e1 == IF n1 = Zero
              THEN PAdd(p.e, SmallestNonzeroFloat64)
              ELSE PAdd(p.e, RelErr(n1))
    IN  Call(p, p, Float64Pred(n1, e1))

\* Mutant of AddFloat64Pred: b.e is left out of the sum.
AddFloat64Pred_DropsArgError(a, b) ==
    LET n1 == RAdd(a.n, b.n)
        e1 == IF n1 = Zero
              THEN PAdd(a.e, SmallestNonzeroFloat64)
              ELSE PAdd(a.e, RelErr(n1))
    IN  Call(a, b, Float64Pred(n1, e1))

AddFloat64Pred(a, b) ==
    LET n1 == RAdd(a.n, b.n)
        e1 == IF n1 = Zero
              THEN PAdd(a.e, PAdd(SmallestNonzeroFloat64, b.e))
              ELSE PAdd(a.e, PAdd(RelErr(n1), b.e))
    IN  Call(a, b, Float64Pred(n1, e1))

\* Mutant of SubFloat64: no special case for a zero result.
SubFloat64_NoZeroCase(p, f) ==
    LET n1 == RSub(p.n, f)
    IN  Call(p, p, Float64Pred(n1, PAdd(p.e, RelErr(n1))))

SubFloat64(p, f) ==
    LET n1 == RSub(p.n, f)
        e1 == IF n1 = Zero
              THEN PAdd(p.e, SmallestNonzeroFloat64)
              ELSE PAdd(p.e, RelErr(n1))
    IN  Call(p, p, Float64Pred(n1, e1))

SubFloat64Pred(a, b) ==
    LET n1 == RSub(a.n, b.n)
        e1 == IF n1 = Zero
              THEN PAdd(a.e, PAdd(SmallestNonzeroFloat64, b.e))
              ELSE PAdd(a.e, PAdd(RelErr(n1), b.e))
    IN  Call(a, b, Float64Pred(n1, e1))

\* Mutant of MulFloat64Pred: p.e is assigned (=) instead of increased (+=).
MulFloat64Pred_Assign(p, f) ==
    LET n1 == RMul(p.n, f)
        e1 == IF n1 = Zero
              THEN PAdd(SmallestNonzeroFloat64, PScale(Abs(f), p.e))
              ELSE PAdd(RelErr(n1), PScale(Abs(f), p.e))
    IN  Call(p, p, Float64Pred(n1, e1))

\* Mutant of MulFloat64Pred: the relative increment without math.Abs.
MulFloat64Pred_NoAbs(p, f) ==
    LET n1 == RMul(p.n, f)
        e1 == IF n1 = Zero
              THEN PAdd(p.e, PAdd(SmallestNonzeroFloat64, PScale(Abs(f), p.e)))
              ELSE PAdd(p.e, PAdd(Mono(1, 0, n1), PScale(Abs(f), p.e)))
    IN  Call(p, p, Float64Pred(n1, e1))

\* func (p Float64Pred) MulFloat64Pred(f float64): the method that takes a
\* plain number.
MulFloat64Pred(p, f) ==
    LET n1 == RMul(p.n, f)
        e1 == IF n1 = Zero
              THEN PAdd(p.e, PAdd(SmallestNonzeroFloat64, PScale(Abs(f), p.e)))
              ELSE PAdd(p.e, PAdd(RelErr(n1), PScale(Abs(f), p.e)))
    IN  Call(p, p, Float64Pred(n1, e1))

\* Mutant of MulFloat64: a pointer receiver, so that the assignments to
\* a.n and a.e change the caller's variable.
MulFloat64_PointerReceiver(a, b) ==
    LET n1 == RMul(a.n, b.n)
        e1 == IF n1 = Zero
              THEN PAdd(a.e, PAdd(PAdd(SmallestNonzeroFloat64,
                                       PScale(Abs(b.n), a.e)),
                                  PScale(Abs(n1), b.e)))
              ELSE PAdd(a.e, PAdd(PAdd(RelErr(n1),
                                       PScale(Abs(b.n), a.e)),
                                  PScale(Abs(n1), b.e)))
    IN  Call(Float64Pred(n1, e1), b, Float64Pred(n1, e1))

\* func (a Float64Pred) MulFloat64(b Float64Pred): the method that takes a
\* Float64Pred.  a.n is overwritten by the product before the error is
\* updated, so math.Abs(a.n) in the error update reads the product.
MulFloat64(a, b) ==
    LET n1 == RMul(a.n, b.n)
        e1 == IF n1 = Zero
              THEN PAdd(a.e, PAdd(PAdd(SmallestNonzeroFloat64,
                                       PScale(Abs(b.n), a.e)),
                                  PScale(Abs(n1), b.e)))
              ELSE PAdd(a.e, PAdd(PAdd(RelErr(n1),
                                       PScale(Abs(b.n), a.e)),
                                  PScale(Abs(n1), b.e)))
    IN  Call(a, b, Float64Pred(n1, e1))

--------------------------------------------------------------------------
\* A caller: two variables of type Float64Pred, the last call it made, and
\* the number of operations it has performed.
\*   reg   the caller's two Float64Pred variables
\*   dev   for each variable, trueValue - n: the exact result of the same
\*         operations on the true operands, minus the computed number
\*   last  the last operation: its name, receiver and argument, the
\*         caller's variables before it and what the call returned
\*   ops   operations performed
\*   inp   the numbers n, a, b of the chained-multiplication scenario
VARIABLES reg, dev, last, ops, inp

vars == <<reg, dev, last, ops, inp>>

RegIds == {1, 2}

Arith == {"AddFloat64", "SubFloat64", "AddFloat64Pred", "SubFloat64Pred",
          "MulFloat64Pred", "MulFloat64"}

\* The rounding error of one step, as the type's documentation bounds it:
\* at most macheps*|y|/(1-macheps) for a result y # 0 and at most
\* SmallestNonzeroFloat64 for y = 0; r \in {-1, 0, 1} picks the extreme.
Rounding(r, y) ==
    PScale(<<r, 1>>, IF y = Zero THEN SmallestNonzeroFloat64 ELSE RelErr(y))

Exact == {0}
Rounded == {-1, 0, 1}

NoInput == [n |-> Zero, a |-> Zero, b |-> Zero]

Record(op, i, j, f, pre, c) ==
    [op |-> op, recv |-> i, arg |-> j, f |-> f, pre |-> pre, call |-> c,
     vals |-> GetValues(c.ret)]

InRange(x) == AbsInt(x[1]) <= MaxMag * x[2] /\ x[2] <= MaxMag

\* The caller's statement  reg[i] = reg[i].op(x): after the call returns
\* the caller holds c.self and c.other in the operand variables, and then
\* assigns c.ret to reg[i].  d is the new trueValue - n of reg[i].
Apply(op, i, j, f, c, d) ==
    /\ InRange(c.ret.n)
    /\ reg' = [k \in RegIds |->
                 IF k = i THEN c.ret ELSE IF k = j THEN c.other ELSE reg[k]]
    /\ dev' = [dev EXCEPT ![i] = d]
    /\ last' = Record(op, i, j, f, reg, c)
    /\ ops' = ops + 1
    /\ UNCHANGED inp

Init ==
    /\ reg \in [RegIds -> {NewFloat64Pred(n) : n \in Floats}]
    /\ dev = [k \in RegIds |-> PZero]
    /\ last = Record("init", 1, 1, Zero, reg, Call(reg[1], reg[1], reg[1]))
    /\ ops = 0
    /\ inp = NoInput

CallNewFloat64Pred ==
    /\ ops < MaxOps
    /\ \E i \in RegIds, n \in Floats :
         LET p == NewFloat64Pred(n)
         IN  Apply("NewFloat64Pred", i, i, n, Call(p, p, p), PZero)

CallGetValues ==
    /\ \E i \in RegIds :
         last' = Record("GetValues", i, i, Zero, reg,
                        Call(reg[i], reg[i], reg[i]))
    /\ UNCHANGED <<reg, dev, ops, inp>>

CallAddFloat64(R) ==
    /\ ops < MaxOps
    /\ \E i \in RegIds, f \in Floats, r \in R :
         LET c == AddFloat64(reg[i], f)
         IN  Apply("AddFloat64", i, i, f, c,
                   PAdd(dev[i], Rounding(r, c.ret.n)))

CallSubFloat64(R) ==
    /\ ops < MaxOps
    /\ \E i \in RegIds, f \in Floats, r \in R :
         LET c == SubFloat64(reg[i], f)
         IN  Apply("SubFloat64", i, i, f, c,
                   PAdd(dev[i], Rounding(r, c.ret.n)))

CallAddFloat64Pred(R) ==
    /\ ops < MaxOps
    /\ \E i \in RegIds, j \in RegIds, r \in R :
         LET c == AddFloat64Pred(reg[i], reg[j])
         IN  Apply("AddFloat64Pred", i, j, Zero, c,
                   PAdd(PAdd(dev[i], dev[j]), Rounding(r, c.ret.n)))

CallSubFloat64Pred(R) ==
    /\ ops < MaxOps
    /\ \E i \in RegIds, j \in RegIds, r \in R :
         LET c == SubFloat64Pred(reg[i], reg[j])
         IN  Apply("SubFloat64Pred", i, j, Zero, c,
                   PAdd(PSub(dev[i], dev[j]), Rounding(r, c.ret.n)))

\* (n + d) * f = n*f + d*f
CallMulFloat64Pred(R) ==
    /\ ops < MaxOps
    /\ \E i \in RegIds, f \in Floats, r \in R :
         LET c == MulFloat64Pred(reg[i], f)
         IN  Apply("MulFloat64Pred", i, i, f, c,
                   PAdd(PScale(f, dev[i]), Rounding(r, c.ret.n)))

\* (an + da) * (bn + db) = an*bn + an*db + bn*da + da*db
CallMulFloat64(R) ==
    /\ ops < MaxOps
    /\ \E i \in RegIds, j \in RegIds, r \in R :
         LET c == MulFloat64(reg[i], reg[j])
             d == PAdd(PAdd(PScale(reg[i].n, dev[j]),
                            PScale(reg[j].n, dev[i])),
                       PMul(dev[i], dev[j]))
         IN  Apply("MulFloat64", i, j, Zero, c,
                   PAdd(d, Rounding(r, c.ret.n)))

\* The program: every step's rounding error is left out of dev (dev stays 0).
Next ==
    \/ CallNewFloat64Pred
    \/ CallGetValues
    \/ CallAddFloat64(Exact)
    \/ CallSubFloat64(Exact)
    \/ CallAddFloat64Pred(Exact)
    \/ CallSubFloat64Pred(Exact)
    \/ CallMulFloat64Pred(Exact)
    \/ CallMulFloat64(Exact)

Spec == Init /\ [][Next]_vars

\* The program with the true value tracked: every arithmetic step rounds
\* by up to the documented amount, in either direction.
NextTrue ==
    \/ CallNewFloat64Pred
    \/ CallGetValues
    \/ CallAddFloat64(Rounded)
    \/ CallSubFloat64(Rounded)
    \/ CallAddFloat64Pred(Rounded)
    \/ CallSubFloat64Pred(Rounded)
    \/ CallMulFloat64Pred(Rounded)
    \/ CallMulFloat64(Rounded)

SpecTrue == Init /\ [][NextTrue]_vars

\* The chained-multiplication scenario: reg[1] is built as
\* NewFloat64Pred(n).MulFloat64Pred(a).MulFloat64Pred(b) and reg[2] as
\* NewFloat64Pred(n).MulFloat64Pred(a*b), for numbers n, a, b.
ChainFloats == Floats \cup {<<-1, 2>>, <<1, 1>>}

ChainInit ==
    /\ inp \in [n : ChainFloats, a : ChainFloats, b : ChainFloats]
    /\ reg = [k \in RegIds |-> NewFloat64Pred(inp.n)]
    /\ dev = [k \in RegIds |-> PZero]
    /\ last = Record("init", 1, 1, Zero, reg, Call(reg[1], reg[1], reg[1]))
    /\ ops = 0

ChainFirst ==
    /\ ops = 0
    /\ Apply("MulFloat64Pred", 1, 1, inp.a, MulFloat64Pred(reg[1], inp.a),
             PZero)

ChainSecond ==
    /\ ops = 1
    /\ Apply("MulFloat64Pred", 1, 1, inp.b, MulFloat64Pred(reg[1], inp.b),
             PZero)

ChainSingle ==
    /\ ops = 2
    /\ LET ab == RMul(inp.a, inp.b)
       IN  Apply("MulFloat64Pred", 2, 2, ab, MulFloat64Pred(reg[2], ab),
                 PZero)

ChainNext == ChainFirst \/ ChainSecond \/ ChainSingle

SpecChain == ChainInit /\ [][ChainNext]_vars

--------------------------------------------------------------------------
\* Properties.

\* The operands of the last call as they were before it, and its result.
A == last.pre[last.recv]
B == last.pre[last.arg]
R == last.call.ret

\* The rounding-increment rule on a post-operation value v.
Increment(v) == IF v = Zero THEN SmallestNonzeroFloat64 ELSE RelErr(v)

\* C1: for every scalar reachable by any sequence of operations,
\* |value - trueValue| <= errorBound, where each step's computed value may
\* differ from the exact result of that step by at most the increment.
C1_ErrorBoundValid ==
    \A i \in RegIds : PLe(PAbs(dev[i]), reg[i].e)

\* C2: the method taking a Float64Pred returns value' = a.value * b.value
\* and errorBound' = a.errorBound*|b.value| + b.errorBound*|a.value|
\* + increment(value'), with the values before the multiplication.
C2_MulTrackedFormula ==
    last.op = "MulFloat64" =>
        /\ R.n = RMul(A.n, B.n)
        /\ R.e = PAdd(PAdd(PScale(Abs(B.n), A.e), PScale(Abs(A.n), B.e)),
                      Increment(R.n))

\* C3: the method taking a float64 returns value' = s.value * f and
\* errorBound' = s.errorBound*|f| + increment(value'), for every s and f.
C3_MulScalarFormula ==
    last.op = "MulFloat64Pred" =>
        /\ R.n = RMul(A.n, last.f)
        /\ R.e = PAdd(PScale(Abs(last.f), A.e), Increment(R.n))

C6_ZeroResult ==
    /\ (last.op \in {"AddFloat64", "SubFloat64"} /\ R.n = Zero) =>
         R.e = PAdd(A.e, SmallestNonzeroFloat64)
    /\ (last.op \in {"AddFloat64Pred", "SubFloat64Pred"} /\ R.n = Zero) =>
         R.e = PAdd(PAdd(A.e, B.e), SmallestNonzeroFloat64)
    /\ (last.op = "MulFloat64Pred" /\ R.n = Zero /\ A.e = PZero) =>
         R.e = SmallestNonzeroFloat64
    /\ (last.op = "MulFloat64" /\ R.n = Zero /\ A.e = PZero /\ B.e = PZero) =>
         R.e = SmallestNonzeroFloat64
    /\ (last.op = "SubFloat64" /\ A = NewFloat64Pred(last.f)) =>
         R.n = Zero /\ R.e = SmallestNonzeroFloat64
    /\ (last.op \in Arith /\ R.n = Zero) => R.e # PZero

\* C6 witness: x subtracted from NewFloat64Pred(x), x # 0.
C6_Witness ==
    /\ last.op = "SubFloat64"
    /\ last.f # Zero
    /\ A = NewFloat64Pred(last.f)
    /\ R.n = Zero

\* C7: NewFloat64Pred(n).MulFloat64Pred(a).MulFloat64Pred(b) has the value
\* of NewFloat64Pred(n).MulFloat64Pred(a*b) and an error bound at least
\* as large.
C7_ChainedGeSingle ==
    ops = 3 =>
        /\ reg[1].n = reg[2].n
        /\ PLe(reg[2].e, reg[1].e)

\* C7 witness: both chains completed on a negative intermediate product,
\* the chained bound strictly larger.
C7_Witness ==
    /\ ops = 3
    /\ RMul(inp.n, inp.a)[1] < 0
    /\ inp.b # Zero
    /\ reg[1].e # reg[2].e

\* C8: NewFloat64Pred(n) reads back as (n, 0), and every reachable scalar
\* has an error bound >= 0.
C8_NonNegative ==
    /\ last.op = "NewFloat64Pred" =>
         /\ last.vals = <<last.f, PZero>>
         /\ GetValues(reg[last.recv]) = <<last.f, PZero>>
    /\ last.op = "init" => \A i \in RegIds : reg[i].e = PZero
    /\ \A i \in RegIds : PSign(reg[i].e) >= 0

\* C8 witness: an arithmetic result with a negative value and a non-zero
\* error bound.
C8_Witness ==
    /\ last.op \in Arith
    /\ R.n[1] < 0
    /\ reg[last.recv] = R
    /\ R.e # PZero

\* C9: no operation changes its operands: when the call returns the
\* caller's receiver and argument are what they were before it, GetValues
\* returns the receiver's fields, and no variable other than the one the
\* result is assigned to changes.
C9_ValueSemantics ==
    /\ last.op \in Arith \cup {"GetValues"} =>
         /\ last.call.self = A
         /\ last.call.other = B
    /\ last.op = "GetValues" => reg = last.pre /\ last.vals = <<A.n, A.e>>
    /\ \A k \in RegIds : k # last.recv => reg[k] = last.pre[k]

\* C9 witness: a tracked operation on two different variables whose
\* result differs from the receiver.
C9_Witness ==
    /\ last.op \in {"AddFloat64Pred", "MulFloat64"}
    /\ last.recv # last.arg
    /\ R # A
    /\ reg[last.arg] = B

\* C10: AddFloat64Pred and the tracked multiplication give the same value
\* and error bound whichever operand is the receiver.
C10_Commutative ==
    /\ last.op = "AddFloat64Pred" => AddFloat64Pred(B, A).ret = R
    /\ last.op = "MulFloat64" => MulFloat64(B, A).ret = R

====
